---- MODULE Spec2Model ----
(***************************************************************************)
(* Model of the blueprint / hexa-ddd-blueprint project scaffolder:         *)
(*   - the name validator of the CLI (_validate_project_name),             *)
(*   - the "new" command (defaults, prompts, validation, error handling),  *)
(*   - the generator (generate_project and its _generate_* helpers), which *)
(*     writes a configuration-dependent file tree one file at a time.      *)
(*                                                                         *)
(* A project name is a sequence of one-character strings, so that the      *)
(* regular expression and re.sub can be computed character by character.   *)
(* A path is a sequence of path components (strings) relative to the       *)
(* current working directory; <<>> is the current working directory.       *)
(* An optional value (Python None or a value) is a sequence of length 0    *)
(* or 1.                                                                   *)
(***************************************************************************)
EXTENDS Naturals, Sequences, FiniteSets, TLC

VARIABLES
    cwdName,    \* Path.cwd().name, as a sequence of characters
    argv,       \* the command line the operator runs: the parameters of "new"
    dirs,       \* the directories that exist below the current directory
    files,      \* the files that exist below the current directory: path -> content
    pc,         \* "idle" (no invocation running) or "generating"
    config,     \* the configuration record of the current / last invocation
    k,          \* index in the plan of the next file generate_project writes
    runs,       \* number of invocations of "new" so far
    exitCode,   \* exit status of the last finished invocation (None before any)
    error,      \* the error the last invocation logged ("" if none)
    called,     \* TRUE iff the last invocation called generate_project
    prompted,   \* TRUE iff the last invocation called prompt_for_config
    success,    \* TRUE iff the last invocation logged "created successfully"
    before,     \* <<dirs, files>> at the start of the last invocation
    input,      \* the string handed to _validate_project_name
    outcome,    \* what _validate_project_name did with it
    hint,       \* the identifier the validator's error message suggests, if any
    resolved,   \* config["name"] after the handling of "."
    prev        \* the error of the invocation before the last one

vars == <<cwdName, argv, dirs, files, pc, config, k, runs, exitCode, error,
          called, prompted, success, before, input, outcome, hint, resolved,
          prev>>

(***************************************************************************)
(* Bounds                                                                  *)
(***************************************************************************)
MaxRuns == 2
MaxNameLen == 3

(***************************************************************************)
(* Optional values                                                         *)
(***************************************************************************)
None == <<>>
Some(v) == <<v>>
IsNone(o) == o = <<>>
Val(o) == o[1]

(***************************************************************************)
(* Characters and strings                                                  *)
(***************************************************************************)
LowerCase == {"a", "b", "c", "d", "e", "f", "g", "h", "i", "j", "k", "l", "m",
              "n", "o", "p", "q", "r", "s", "t", "u", "v", "w", "x", "y", "z"}
UpperCase == {"A", "B", "C", "D", "E", "F", "G", "H", "I", "J", "K", "L", "M",
              "N", "O", "P", "Q", "R", "S", "T", "U", "V", "W", "X", "Y", "Z"}
Digits == {"0", "1", "2", "3", "4", "5", "6", "7", "8", "9"}

\* [a-zA-Z_]
IdentStart == LowerCase \cup UpperCase \cup {"_"}
\* [a-zA-Z0-9_]
IdentChar == LowerCase \cup UpperCase \cup Digits \cup {"_"}

\* The characters names are built from when every name up to MaxNameLen is
\* enumerated: two letters (so that the keyword "as" occurs), an underscore,
\* a digit, a hyphen, a dot, a blank and a line feed.
Alphabet == {"a", "s", "_", "1", "-", ".", " ", "\n"}

\* The Python str of a sequence of characters.
RECURSIVE NameStr(_)
NameStr(s) == IF s = <<>> THEN "" ELSE Head(s) \o NameStr(Tail(s))

\* keyword.kwlist of CPython 3.12+ (soft keywords are not in it).
Kwlist == {"False", "None", "True", "and", "as", "assert", "async", "await",
           "break", "class", "continue", "def", "del", "elif", "else",
           "except", "finally", "for", "from", "global", "if", "import",
           "in", "is", "lambda", "nonlocal", "not", "or", "pass", "raise",
           "return", "try", "while", "with", "yield"}

\* keyword.iskeyword(name)
IsKeyword(s) == NameStr(s) \in Kwlist

\* re.match(r"^[a-zA-Z_][a-zA-Z0-9_]*$", name) is not None.  Without
\* re.MULTILINE, "$" matches at the end of the string and also just before a
\* line feed that is the last character of the string.
ReMatchIdentifier(s) ==
    \E e \in 1..Len(s) :
        /\ \/ e = Len(s)
           \/ e = Len(s) - 1 /\ s[Len(s)] = "\n"
        /\ s[1] \in IdentStart
        /\ \A i \in 2..e : s[i] \in IdentChar

\* re.sub(r"[^a-zA-Z0-9_]", "_", name)
SubNonIdent(s) == [i \in 1..Len(s) |-> IF s[i] \in IdentChar THEN s[i] ELSE "_"]

\* The identifier the error message of _validate_project_name suggests after
\* "Hint: try": only the message of the grammar branch has one.
ValidationHint(s) ==
    IF ~ReMatchIdentifier(s) THEN Some(SubNonIdent(s)) ELSE None

\* _validate_project_name(name): "ok" when it returns, otherwise the branch
\* that raised typer.Exit(code=1).
ValidateProjectName(s) ==
    IF ~ReMatchIdentifier(s) THEN "invalid"
    ELSE IF IsKeyword(s) THEN "keyword"
    ELSE "ok"

(***************************************************************************)
(* Defaults (blueprint/defaults.py)                                        *)
(***************************************************************************)
DEFAULT_PROJECT_NAME == <<"m", "y", "p", "r", "o", "j", "e", "c", "t">>
DEFAULT_DESCRIPTION == "A Python project using DDD + Hexagonal Architecture"
DEFAULT_AUTHOR == "Author"
DEFAULT_DB == "none"
DEFAULT_PYTHON_VERSION == "3.14"
DB_CHOICES == {"postgres", "none"}

(***************************************************************************)
(* File contents                                                           *)
(***************************************************************************)
\* The context of a file that is not rendered from a template.
NoContext ==
    [project_name |-> <<>>, description |-> "", author |-> "", db |-> "",
     python_version |-> "", docker |-> FALSE, ci |-> FALSE,
     devcontainer |-> FALSE]

\* _render(template_path, context): the template bodies are not part of the
\* program, so the rendered text is the pair of the template and the context
\* it was rendered with.
Render(template_path, context) == [tpl |-> template_path, ctx |-> context]

\* The empty text _write_init writes.
EmptyText == [tpl |-> "", ctx |-> NoContext]

\* The text of a file that was there before the program ran.
ForeignText == [tpl |-> "<foreign>", ctx |-> NoContext]

\* The context dictionary generate_project builds from the configuration.
Context(c) ==
    [project_name |-> c.name, description |-> c.description,
     author |-> c.author, db |-> c.db, python_version |-> c.python,
     docker |-> c.docker, ci |-> c.ci, devcontainer |-> c.devcontainer]

(***************************************************************************)
(* The plan: the (path, content) pairs the generator writes, in the order  *)
(* of the _write_file calls of the code.  Paths are relative to the root.  *)
(***************************************************************************)
\* _write_file(dir / file, _render(tpl, context))
WriteCall(dir, file, tpl, context) == <<dir \o <<file>>, Render(tpl, context)>>

\* _write_init(dir)
WriteInit(dir) == <<dir \o <<"__init__.py">>, EmptyText>>

\* Mutant of HasDb: the truthiness test "if context['db']:", which holds for
\* the string "none" too.
HasDbTruthy(context) == context.db # ""

\* if context["db"] != "none":
HasDb(context) == context.db # "none"

\* Mutant of GenerateDbAdapter: the connection-configuration module is left out.
GenerateDbAdapterNoConfig(src, context) ==
    LET persistence == src \o <<"adapters", "outbound", "persistence">>
        db_dir == persistence \o <<context.db>>
        template_dir == "db/" \o context.db
    IN  << WriteInit(persistence),
           WriteInit(db_dir),
           WriteCall(db_dir, "database.py", template_dir \o "/database.py.j2", context),
           WriteCall(db_dir, "models.py", template_dir \o "/models.py.j2", context),
           WriteCall(db_dir, "repositories.py", template_dir \o "/repositories.py.j2", context) >>

\* Mutant of GenerateDbAdapter: no package marker in persistence/ itself.
GenerateDbAdapterNoPersistenceInit(src, context) ==
    LET persistence == src \o <<"adapters", "outbound", "persistence">>
        db_dir == persistence \o <<context.db>>
        template_dir == "db/" \o context.db
    IN  << WriteInit(db_dir),
           WriteCall(db_dir, "database.py", template_dir \o "/database.py.j2", context),
           WriteCall(db_dir, "models.py", template_dir \o "/models.py.j2", context),
           WriteCall(db_dir, "repositories.py", template_dir \o "/repositories.py.j2", context),
           WriteCall(db_dir, "config.py", template_dir \o "/config.py.j2", context) >>

\* _generate_db_adapter(src, context)
GenerateDbAdapter(src, context) ==
    LET persistence == src \o <<"adapters", "outbound", "persistence">>
        db_dir == persistence \o <<context.db>>
        template_dir == "db/" \o context.db
    IN  << WriteInit(persistence),
           WriteInit(db_dir),
           WriteCall(db_dir, "database.py", template_dir \o "/database.py.j2", context),
           WriteCall(db_dir, "models.py", template_dir \o "/models.py.j2", context),
           WriteCall(db_dir, "repositories.py", template_dir \o "/repositories.py.j2", context),
           WriteCall(db_dir, "config.py", template_dir \o "/config.py.j2", context) >>

\* _generate_source_tree(src, context)
GenerateSourceTree(src, context) ==
    << WriteCall(src, "__init__.py", "base/init.py.j2", context),
       WriteCall(src, "__main__.py", "base/__main__.py.j2", context),
       \* Domain layer
       WriteInit(src \o <<"domain">>),
       WriteInit(src \o <<"domain", "models">>),
       WriteInit(src \o <<"domain", "services">>),
       WriteInit(src \o <<"domain", "events">>),
       WriteCall(src \o <<"domain", "events">>, "base.py", "base/domain_event.py.j2", context),
       WriteCall(src \o <<"domain", "events">>, "events.py", "base/events.py.j2", context),
       WriteCall(src \o <<"domain", "exceptions">>, "__init__.py", "base/exceptions/__init__.py.j2", context),
       WriteCall(src \o <<"domain", "exceptions">>, "base.py", "base/exceptions/base.py.j2", context),
       WriteCall(src \o <<"domain", "exceptions">>, "validation.py", "base/exceptions/validation.py.j2", context),
       \* Application layer
       WriteInit(src \o <<"application">>),
       WriteInit(src \o <<"application", "ports">>),
       WriteInit(src \o <<"application", "ports", "inbound">>),
       WriteInit(src \o <<"application", "ports", "outbound">>) >>
    \o (IF HasDb(context)
        THEN << WriteCall(src \o <<"application", "ports", "outbound">>, "database.py",
                          "base/database_port.py.j2", context) >>
        ELSE << >>)
    \o << WriteInit(src \o <<"application", "services">>),
          WriteInit(src \o <<"application", "dto">>),
          \* Adapters layer, inbound
          WriteInit(src \o <<"adapters">>),
          WriteInit(src \o <<"adapters", "inbound">>),
          WriteInit(src \o <<"adapters", "inbound", "api">>),
          WriteInit(src \o <<"adapters", "inbound", "api", "rest">>),
          WriteCall(src \o <<"adapters", "inbound", "api", "rest">>, "app.py", "base/app.py.j2", context),
          WriteCall(src \o <<"adapters", "inbound", "api", "rest">>, "dependencies.py",
                    "base/dependencies.py.j2", context),
          WriteInit(src \o <<"adapters", "inbound", "api", "rest", "routes">>),
          \* Adapters layer, outbound
          WriteInit(src \o <<"adapters", "outbound">>) >>
    \o (IF HasDb(context) THEN GenerateDbAdapter(src, context) ELSE << >>)
    \o << WriteInit(src \o <<"adapters", "config">>),
          WriteCall(src \o <<"adapters", "config">>, "settings.py", "base/settings.py.j2", context),
          \* Shared kernel
          WriteInit(src \o <<"domain", "shared">>),
          WriteCall(src \o <<"domain", "shared">>, "building_blocks.py",
                    "base/building_blocks.py.j2", context) >>

\* Mutant of GenerateTests: no package marker under tests/integration.
GenerateTestsUnitOnly(context) ==
    << WriteCall(<<"tests">>, "conftest.py", "base/conftest.py.j2", context),
       WriteInit(<<"tests", "unit", "domain">>),
       WriteInit(<<"tests", "unit", "application">>) >>

\* _generate_tests(root, context); root is <<>> in a plan
GenerateTests(context) ==
    << WriteCall(<<"tests">>, "conftest.py", "base/conftest.py.j2", context),
       WriteInit(<<"tests", "unit", "domain">>),
       WriteInit(<<"tests", "unit", "application">>),
       WriteInit(<<"tests", "integration", "adapters">>) >>

\* _generate_docs(root, context)
GenerateDocs(context) ==
    << WriteCall(<<"docs", "architecture">>, "hexagonal.puml", "docs/hexagonal.puml.j2", context) >>

\* _generate_root_files(root, context)
GenerateRootFiles(context) ==
    << WriteCall(<<>>, "pyproject.toml", "base/pyproject.toml.j2", context),
       WriteCall(<<>>, "README.md", "base/README.md.j2", context),
       WriteCall(<<>>, ".gitignore", "base/gitignore.j2", context),
       WriteCall(<<>>, ".pre-commit-config.yaml", "base/pre-commit-config.yaml.j2", context),
       WriteCall(<<>>, ".env", "base/env.j2", context),
       WriteCall(<<>>, ".env.dev", "base/env.dev.j2", context) >>

\* _generate_docker(root, context)
GenerateDocker(context) ==
    << WriteCall(<<"docker">>, "Dockerfile", "docker/Dockerfile.j2", context),
       WriteCall(<<"docker">>, "docker-compose.yml", "docker/docker-compose.yml.j2", context),
       WriteCall(<<>>, ".dockerignore", "docker/dockerignore.j2", context) >>

\* _generate_ci(root, context)
GenerateCi(context) ==
    << WriteCall(<<".github", "workflows">>, "ci.yml", "ci/ci.yml.j2", context) >>

\* Mutant of GenerateDevcontainer: the compose file is written whatever db is.
GenerateDevcontainerAlwaysCompose(context) ==
    << WriteCall(<<".devcontainer">>, "devcontainer.json",
                 "devcontainer/devcontainer.json.j2", context),
       WriteCall(<<".devcontainer">>, "docker-compose.yml",
                 "devcontainer/docker-compose.yml.j2", context),
       WriteCall(<<".vscode">>, "launch.json", "devcontainer/launch.json.j2", context) >>

\* _generate_devcontainer(root, context)
GenerateDevcontainer(context) ==
    << WriteCall(<<".devcontainer">>, "devcontainer.json",
                 "devcontainer/devcontainer.json.j2", context) >>
    \o (IF HasDb(context)
        THEN << WriteCall(<<".devcontainer">>, "docker-compose.yml",
                          "devcontainer/docker-compose.yml.j2", context) >>
        ELSE << >>)
    \o << WriteCall(<<".vscode">>, "launch.json", "devcontainer/launch.json.j2", context) >>

\* Mutant of Plan: the CI step is nested under the docker step.
PlanCiUnderDocker(c) ==
    LET context == Context(c)
        src == <<"src", NameStr(c.name)>>
    IN  GenerateSourceTree(src, context)
        \o GenerateTests(context)
        \o GenerateDocs(context)
        \o GenerateRootFiles(context)
        \o (IF c.docker THEN GenerateDocker(context) ELSE << >>)
        \o (IF c.docker /\ c.ci THEN GenerateCi(context) ELSE << >>)
        \o (IF c.devcontainer THEN GenerateDevcontainer(context) ELSE << >>)

\* The body of generate_project after the precondition check: every write it
\* makes for configuration c, in order, relative to the root.
Plan(c) ==
    LET context == Context(c)
        src == <<"src", NameStr(c.name)>>
    IN  GenerateSourceTree(src, context)
        \o GenerateTests(context)
        \o GenerateDocs(context)
        \o GenerateRootFiles(context)
        \o (IF c.docker THEN GenerateDocker(context) ELSE << >>)
        \o (IF c.ci THEN GenerateCi(context) ELSE << >>)
        \o (IF c.devcontainer THEN GenerateDevcontainer(context) ELSE << >>)

(***************************************************************************)
(* The filesystem below the current working directory                      *)
(***************************************************************************)
\* A tree with no entries has no directories and the empty file map.
NoFiles == [p \in {} |-> ForeignText]

\* Path.exists()
Exists(d, f, p) == p = <<>> \/ p \in d \/ p \in DOMAIN f

\* The proper, non-empty prefixes of a path: the directories above it.
Parents(p) == {SubSeq(p, 1, i) : i \in 1..(Len(p) - 1)}

\* Mutant of CanWrite: mkdir() without parents=True, which needs the
\* directory above the parent to exist.
CanWriteParentOnly(d, f, p) ==
    /\ Parents(p) \cap DOMAIN f = {}
    /\ p \notin d
    /\ (Len(p) <= 2 \/ SubSeq(p, 1, Len(p) - 2) \in d)

\* _write_file(path, content) succeeds unless a directory above the path is a
\* file (mkdir raises) or the path is a directory (write_text raises).
CanWrite(d, f, p) == Parents(p) \cap DOMAIN f = {} /\ p \notin d

\* The directories after path.parent.mkdir(parents=True, exist_ok=True).
DirsAfterWrite(d, p) == d \cup Parents(p)

\* The files after path.write_text(content).
FilesAfterWrite(f, p, content) ==
    [q \in DOMAIN f \cup {p} |-> IF q = p THEN content ELSE f[q]]

\* Part of a text: what a write_text call that raises may leave in the file.
PartOf(content) == [content EXCEPT !.tpl = "<part of> " \o content.tpl]

\* Mutant of AfterFailure: the directory of the failed file is removed with
\* all it holds.
AfterFailureParentRemoved(d, f, p, content) ==
    LET parent == SubSeq(p, 1, Len(p) - 1)
        Below(q) == Len(q) >= Len(parent) /\ SubSeq(q, 1, Len(parent)) = parent
    IN  {[dirs |-> {q \in d : ~Below(q)},
          files |-> [q \in {x \in DOMAIN f : ~Below(x)} |-> f[q]],
          error |-> "write_failed"]}

\* What a failing _write_file(path, _render(...)) call can leave behind, and
\* the kind of error it raises.  _render raises: nothing has changed.
\* mkdir(parents=True) raises while creating a missing directory above the
\* path: the directories above that one have been created.  write_text raises
\* in open(): the parent directories exist, the file does not.  write_text
\* raises after open() has created the file: the file holds nothing or a part
\* of the text (there is no such part of an empty text).
AfterFailure(d, f, p, content) ==
    {[dirs |-> d, files |-> f, error |-> "render_failed"]}
    \cup {[dirs |-> d \cup {SubSeq(p, 1, i) : i \in 1..(j - 1)}, files |-> f,
           error |-> "write_failed"] :
              j \in {i \in 1..(Len(p) - 1) : SubSeq(p, 1, i) \notin d}}
    \cup {[dirs |-> DirsAfterWrite(d, p), files |-> f, error |-> "write_failed"]}
    \cup {[dirs |-> DirsAfterWrite(d, p),
           files |-> FilesAfterWrite(f, p, part), error |-> "write_failed"] :
              part \in IF content = EmptyText THEN {}
                       ELSE {EmptyText, PartOf(content)}}

(***************************************************************************)
(* generate_project: target root and precondition                          *)
(***************************************************************************)
\* root = Path.cwd() / name
NamedRoot(c) == <<NameStr(c.name)>>

\* Mutant of Root: the _use_cwd key is ignored.
RootAlwaysNamed(c) == NamedRoot(c)

\* The target root: the current directory itself when _use_cwd is set.
Root(c) == IF c.use_cwd THEN <<>> ELSE NamedRoot(c)

\* Mutants of RootExists: root.is_dir() / root.is_file() instead of exists().
RootIsDir(c, d, f) == NamedRoot(c) \in d
RootIsFile(c, d, f) == NamedRoot(c) \in DOMAIN f

\* Mutant of RootExists: the root counts as existing only when a file lies
\* below it.
RootHoldsFile(c, d, f) ==
    \E q \in DOMAIN f : Len(q) > 1 /\ SubSeq(q, 1, 1) = NamedRoot(c)

\* if root.exists(): raise FileExistsError(...)
RootExists(c, d, f) == Exists(d, f, NamedRoot(c))

\* Mutant of CwdNotEmpty: only files count as entries.
CwdHasFile(d, f) == DOMAIN f # {}

\* The current directory contains any entry.
CwdNotEmpty(d, f) == d # {} \/ DOMAIN f # {}

\* The precondition check of generate_project: the FileExistsError it raises,
\* or "" when it goes on to write.
TargetConflict(c, d, f) ==
    IF c.use_cwd
    THEN (IF CwdNotEmpty(d, f) THEN "not_empty" ELSE "")
    ELSE (IF RootExists(c, d, f) THEN "exists" ELSE "")

(***************************************************************************)
(* The "new" command                                                       *)
(***************************************************************************)
\* Python truthiness of an optional name / an optional string.
TruthyName(o) == ~IsNone(o) /\ Val(o) # <<>>
TruthyStr(o) == ~IsNone(o) /\ Val(o) # ""

\* The config dictionary "new" builds from its parameters.
RawConfig(name, description, author, db, python, docker, ci, devcontainer) ==
    [name |-> name, description |-> description, author |-> author,
     db |-> db,
     python |-> IF IsNone(python) THEN Some(DEFAULT_PYTHON_VERSION) ELSE python,
     docker |-> docker, ci |-> ci, devcontainer |-> devcontainer,
     use_cwd |-> FALSE]

\* Mutant of HandleDot: the name of the current directory is taken as it is.
HandleDotRawCwdName(c, cwd_name) ==
    IF c.name = Some(<<".">>)
    THEN [c EXCEPT !.name = Some(cwd_name), !.use_cwd = TRUE]
    ELSE [c EXCEPT !.use_cwd = FALSE]

\* Handle "." : scaffold into the current directory.
HandleDot(c, cwd_name) ==
    IF c.name = Some(<<".">>)
    THEN [c EXCEPT !.name = Some(SubNonIdent(cwd_name)), !.use_cwd = TRUE]
    ELSE [c EXCEPT !.use_cwd = FALSE]

\* Mutant of FillDefaults: a missing devcontainer toggle is filled with False.
FillDefaultsNoDevcontainer(c) ==
    [c EXCEPT
        !.name = IF TruthyName(c.name) THEN c.name ELSE Some(DEFAULT_PROJECT_NAME),
        !.description = IF TruthyStr(c.description) THEN c.description
                        ELSE Some(DEFAULT_DESCRIPTION),
        !.author = IF TruthyStr(c.author) THEN c.author ELSE Some(DEFAULT_AUTHOR),
        !.db = IF TruthyStr(c.db) THEN c.db ELSE Some(DEFAULT_DB),
        !.docker = IF IsNone(c.docker) THEN Some(TRUE) ELSE c.docker,
        !.ci = IF IsNone(c.ci) THEN Some(TRUE) ELSE c.ci,
        !.devcontainer = IF IsNone(c.devcontainer) THEN Some(FALSE) ELSE c.devcontainer]

\* The no_interactive branch: fill in defaults for any missing values.
FillDefaults(c) ==
    [c EXCEPT
        !.name = IF TruthyName(c.name) THEN c.name ELSE Some(DEFAULT_PROJECT_NAME),
        !.description = IF TruthyStr(c.description) THEN c.description
                        ELSE Some(DEFAULT_DESCRIPTION),
        !.author = IF TruthyStr(c.author) THEN c.author ELSE Some(DEFAULT_AUTHOR),
        !.db = IF TruthyStr(c.db) THEN c.db ELSE Some(DEFAULT_DB),
        !.docker = IF IsNone(c.docker) THEN Some(TRUE) ELSE c.docker,
        !.ci = IF IsNone(c.ci) THEN Some(TRUE) ELSE c.ci,
        !.devcontainer = IF IsNone(c.devcontainer) THEN Some(TRUE) ELSE c.devcontainer]

\* What the operator may answer to the project-name prompt: Enter (the
\* default), blanks (stripped to the empty string), or a typed name.
PromptNameAnswers == {DEFAULT_PROJECT_NAME, <<>>, <<"1", "a">>, <<"a", "s">>}

\* The answers prompt_for_config asks for, given the configuration it gets:
\* a field that is not prompted for has one (unused) answer.
Answers(c) ==
    [name : IF TruthyName(c.name) THEN {<<>>} ELSE PromptNameAnswers,
     description : IF TruthyStr(c.description) THEN {""} ELSE {DEFAULT_DESCRIPTION},
     author : IF TruthyStr(c.author) THEN {""} ELSE {DEFAULT_AUTHOR},
     db : IF TruthyStr(c.db) THEN {""} ELSE DB_CHOICES,
     python : IF TruthyStr(c.python) THEN {""} ELSE {DEFAULT_PYTHON_VERSION},
     docker : IF IsNone(c.docker) THEN BOOLEAN ELSE {FALSE},
     ci : IF IsNone(c.ci) THEN BOOLEAN ELSE {FALSE},
     devcontainer : IF IsNone(c.devcontainer) THEN BOOLEAN ELSE {FALSE}]

\* prompt_for_config(config), the operator answering ans.
PromptForConfig(c, ans) ==
    [c EXCEPT
        !.name = IF ~TruthyName(c.name) THEN Some(ans.name) ELSE c.name,
        !.description = IF ~TruthyStr(c.description) THEN Some(ans.description)
                        ELSE c.description,
        !.author = IF ~TruthyStr(c.author) THEN Some(ans.author) ELSE c.author,
        !.db = IF ~TruthyStr(c.db) THEN Some(ans.db) ELSE c.db,
        !.python = IF ~TruthyStr(c.python) THEN Some(ans.python) ELSE c.python,
        !.docker = IF IsNone(c.docker) THEN Some(ans.docker) ELSE c.docker,
        !.ci = IF IsNone(c.ci) THEN Some(ans.ci) ELSE c.ci,
        !.devcontainer = IF IsNone(c.devcontainer) THEN Some(ans.devcontainer)
                         ELSE c.devcontainer]

\* The values of a configuration in which every field is set.
Plain(c) ==
    [name |-> Val(c.name), description |-> Val(c.description),
     author |-> Val(c.author), db |-> Val(c.db), python |-> Val(c.python),
     docker |-> Val(c.docker), ci |-> Val(c.ci),
     devcontainer |-> Val(c.devcontainer), use_cwd |-> c.use_cwd]

\* The configuration before any invocation.
NoConfig ==
    [name |-> <<>>, description |-> "", author |-> "", db |-> "", python |-> "",
     docker |-> FALSE, ci |-> FALSE, devcontainer |-> FALSE, use_cwd |-> FALSE]

\* Mutant of ValidatorExits: the keyword branch logs the error and returns.
ValidatorExitsOnGrammar(res) == res = "invalid"

\* The raise typer.Exit(code=1) of either branch of _validate_project_name
\* ends "new" at the call of the validator.
ValidatorExits(res) == res # "ok"

(***************************************************************************)
(* Inputs                                                                  *)
(***************************************************************************)
\* The positional name argument: omitted, the "." sentinel, a valid name,
\* the empty string, a leading digit, a hyphen, a keyword.
ArgNames ==
    {None, Some(<<".">>), Some(DEFAULT_PROJECT_NAME), Some(<<>>),
     Some(<<"1", "a">>), Some(<<"a", "-", "b">>), Some(<<"a", "s">>)}

ArgDbs == {None, Some("postgres"), Some("none")}
ArgFlags == {None, Some(TRUE), Some(FALSE)}

\* The command lines: the positional name is any of ArgNames, and the options
\* (description, author, db, python and the three toggles) are all omitted
\* or all given, with every value of db and of the toggles.
ArgVectors ==
    {a \in [name : ArgNames,
            description : {None, Some("Test project")},
            author : {None, Some("Tester")},
            db : ArgDbs,
            python : {None, Some("3.12")},
            docker : ArgFlags, ci : ArgFlags, devcontainer : ArgFlags,
            no_interactive : BOOLEAN] :
        \A o \in {"author", "python", "db", "docker", "ci", "devcontainer"} :
            IsNone(a[o]) = IsNone(a.description)}

\* The name of the current working directory: one with a hyphen, one with a
\* leading digit, one that is a keyword.  It matters to "new ." only; every
\* other command line is run in my-app.
MyApp == <<"m", "y", "-", "a", "p", "p">>
CwdNames == {MyApp, <<"1", "a">>, <<"a", "s">>}

\* What is in the current working directory before the first invocation:
\* nothing, an unrelated file, or an entry with the default project name that
\* is a file, an empty directory or a directory with a file in it.
InitialTrees ==
    LET taken == <<NameStr(DEFAULT_PROJECT_NAME)>>
    IN  {<<{}, NoFiles>>,
         <<{}, [p \in {<<"notes.txt">>} |-> ForeignText]>>,
         <<{}, [p \in {taken} |-> ForeignText]>>,
         <<{taken}, NoFiles>>,
         <<{taken}, [p \in {taken \o <<"notes.txt">>} |-> ForeignText]>>}

\* Every string over Alphabet of length at most n.
Names(n) == UNION {[1..m -> Alphabet] : m \in 0..n}

(***************************************************************************)
(* Initial states                                                          *)
(***************************************************************************)
Idle ==
    /\ pc = "idle"
    /\ config = NoConfig
    /\ k = 0
    /\ runs = 0
    /\ exitCode = None
    /\ error = ""
    /\ called = FALSE
    /\ prompted = FALSE
    /\ success = FALSE
    /\ before = <<dirs, files>>
    /\ hint = None
    /\ resolved = None
    /\ prev = ""

Init ==
    /\ argv \in ArgVectors
    /\ cwdName \in CwdNames
    /\ argv.name # Some(<<".">>) => cwdName = MyApp
    /\ \E t \in InitialTrees : dirs = t[1] /\ files = t[2]
    /\ input = <<>>
    /\ outcome = "none"
    /\ Idle

(***************************************************************************)
(* Actions                                                                 *)
(***************************************************************************)
\* One invocation of "new" with the command line argv, up to the first write
\* of generate_project: build the configuration, resolve ".", fill defaults
\* or prompt, validate the name, call generate_project, which checks its
\* precondition.
New ==
    /\ pc = "idle"
    /\ runs < MaxRuns
    /\ LET raw == RawConfig(argv.name, argv.description, argv.author, argv.db,
                            argv.python, argv.docker, argv.ci, argv.devcontainer)
           dotted == HandleDot(raw, cwdName)
       IN  \E ans \in Answers(dotted) :
           LET filled == IF argv.no_interactive THEN FillDefaults(dotted)
                         ELSE PromptForConfig(dotted, ans)
               c == Plain(filled)
               res == ValidateProjectName(c.name)
               conflict == TargetConflict(c, dirs, files)
           IN  /\ runs' = runs + 1
               /\ before' = <<dirs, files>>
               /\ prompted' = ~argv.no_interactive
               /\ config' = c
               /\ input' = c.name
               /\ outcome' = res
               /\ hint' = ValidationHint(c.name)
               /\ resolved' = dotted.name
               /\ prev' = error
               /\ success' = FALSE
               /\ UNCHANGED <<cwdName, argv, dirs, files>>
               /\ IF ValidatorExits(res)
                  THEN /\ called' = FALSE
                       /\ error' = res
                       /\ exitCode' = Some(1)
                       /\ pc' = "idle"
                       /\ k' = 0
                  ELSE /\ called' = TRUE
                       /\ IF conflict # ""
                          THEN /\ error' = conflict
                               /\ exitCode' = Some(1)
                               /\ pc' = "idle"
                               /\ k' = 0
                          ELSE /\ error' = ""
                               /\ exitCode' = None
                               /\ pc' = "generating"
                               /\ k' = 1

\* The next _write_file call of generate_project; after the last one
\* generate_project returns and "new" logs the success message.
Write ==
    /\ pc = "generating"
    /\ LET plan == Plan(config)
           path == Root(config) \o plan[k][1]
       IN  IF CanWrite(dirs, files, path)
           THEN /\ dirs' = DirsAfterWrite(dirs, path)
                /\ files' = FilesAfterWrite(files, path, plan[k][2])
                /\ error' = ""
                /\ IF k = Len(plan)
                   THEN /\ pc' = "idle"
                        /\ k' = 0
                        /\ exitCode' = Some(0)
                        /\ success' = TRUE
                   ELSE /\ pc' = "generating"
                        /\ k' = k + 1
                        /\ UNCHANGED <<exitCode, success>>
           ELSE \* mkdir or write_text raises OSError, which "new" does not catch
                /\ pc' = "idle"
                /\ k' = 0
                /\ exitCode' = Some(1)
                /\ error' = "os_error"
                /\ UNCHANGED <<dirs, files, success>>
    /\ UNCHANGED <<cwdName, argv, config, runs, called, prompted, before,
                   input, outcome, hint, resolved, prev>>

Next ==
    \/ New
    \/ Write

Spec == Init /\ [][Next]_vars

\* The next _write_file call of generate_project, or the _render call in its
\* argument, raises.  generate_project has no handler and "new" catches only
\* FileExistsError, so the exception ends the invocation with status 1; k
\* stays at the index of the failed file.
Fail ==
    /\ pc = "generating"
    /\ LET plan == Plan(config)
           path == Root(config) \o plan[k][1]
       IN  \E o \in AfterFailure(dirs, files, path, plan[k][2]) :
               /\ dirs' = o.dirs
               /\ files' = o.files
               /\ error' = o.error
    /\ pc' = "idle"
    /\ exitCode' = Some(1)
    /\ UNCHANGED <<cwdName, argv, config, k, runs, called, prompted, success,
                   before, input, outcome, hint, resolved, prev>>

\* The command lines of the runs in which a render or a write may fail:
\* non-interactive, into a named root or into the current directory, the
\* three toggles alike.
FaultArgVectors ==
    {a \in ArgVectors :
        /\ a.no_interactive
        /\ a.name \in {Some(DEFAULT_PROJECT_NAME), Some(<<".">>)}
        /\ a.docker = a.ci
        /\ a.ci = a.devcontainer}

InitFault ==
    /\ argv \in FaultArgVectors
    /\ cwdName = MyApp
    /\ \E t \in InitialTrees : dirs = t[1] /\ files = t[2]
    /\ input = <<>>
    /\ outcome = "none"
    /\ Idle

NextFault ==
    \/ New
    \/ Write
    \/ Fail

SpecFault == InitFault /\ [][NextFault]_vars

\* The validator on its own, applied to every string up to MaxNameLen.
InitValidate ==
    /\ cwdName = MyApp
    /\ argv \in {a \in ArgVectors : a.name = None /\ a.db = None /\ a.docker = None
                                    /\ a.description = None /\ a.no_interactive}
    /\ dirs = {}
    /\ files = NoFiles
    /\ input \in Names(MaxNameLen)
    /\ outcome = "none"
    /\ Idle

Validate ==
    /\ outcome = "none"
    /\ outcome' = ValidateProjectName(input)
    /\ hint' = ValidationHint(input)
    /\ UNCHANGED <<cwdName, argv, dirs, files, pc, config, k, runs, exitCode,
                   error, called, prompted, success, before, input, resolved,
                   prev>>

NextValidate == Validate

SpecValidate == InitValidate /\ [][NextValidate]_vars

TypeOK ==
    /\ pc \in {"idle", "generating"}
    /\ runs \in 0..MaxRuns
    /\ exitCode \in {None, Some(0), Some(1)}
    /\ called \in BOOLEAN
    /\ outcome \in {"none", "ok", "invalid", "keyword"}

(***************************************************************************)
(* Vocabulary of the properties                                            *)
(***************************************************************************)
\* The identifier grammar: a first character that is a letter or underscore,
\* then letters, digits or underscores.
IsIdentifier(s) ==
    /\ Len(s) >= 1
    /\ s[1] \in IdentStart
    /\ \A i \in 2..Len(s) : s[i] \in IdentChar

\* The last invocation of "new" has ended.
Ended == runs > 0 /\ pc = "idle"

\* The last invocation called generate_project in named-subdirectory mode.
CalledNamed == runs > 0 /\ called /\ ~config.use_cwd

\* The filesystem is as it was when the last invocation started.
Untouched == <<dirs, files>> = before

\* p is path q or lies below it.
Under(q, p) == Len(p) >= Len(q) /\ SubSeq(p, 1, Len(q)) = q

\* The files directly in directory q.
FilesIn(q) == {p \in DOMAIN files : Len(p) = Len(q) + 1 /\ Under(q, p)}

\* The root and the package directory of the last generation.
TargetRoot == Root(config)
PackageDir == TargetRoot \o <<"src", NameStr(config.name)>>

\* The file at path p relative to the root of the last generation exists.
Has(p) == (TargetRoot \o p) \in DOMAIN files

\* The file at path p relative to the package directory exists.
HasSrc(p) == (PackageDir \o p) \in DOMAIN files

\* The files of the last generation, relative to its root.
Generated == {SubSeq(p, Len(TargetRoot) + 1, Len(p)) :
                 p \in {q \in DOMAIN files : Under(TargetRoot, q)}}

\* The relative paths a plan writes.
PlanPaths(plan) == {plan[i][1] : i \in 1..Len(plan)}

(***************************************************************************)
(* C1                                                                      *)
(***************************************************************************)
\* C1: _validate_project_name accepts a name if and only if it is non-empty,
\* starts with an ASCII letter or underscore, continues with ASCII letters,
\* digits or underscores only, and is not a Python keyword.
C1_AcceptsExactlyIdentifiers ==
    outcome # "none" =>
        ((outcome = "ok") <=> (IsIdentifier(input) /\ ~IsKeyword(input)))

(***************************************************************************)
(* C2                                                                      *)
(***************************************************************************)
\* C2: when the validator rejects the name, "new" exits with a non-zero
\* status, generate_project is never called and the filesystem is as it was.
C2_RejectedNameNeverGenerates ==
    (Ended /\ outcome \in {"invalid", "keyword"}) =>
        /\ exitCode = Some(1)
        /\ ~called
        /\ ~success
        /\ Untouched

\* A keyword was rejected by an invocation that prompted for the name.
C2_Witness ==
    /\ Ended
    /\ outcome = "keyword"
    /\ prompted
    /\ exitCode = Some(1)
    /\ ~called

(***************************************************************************)
(* C3                                                                      *)
(***************************************************************************)
\* C3: in named-subdirectory mode, if <cwd>/<name> exists when
\* generate_project is called, it raises FileExistsError before it writes
\* anything: the filesystem is unchanged and "new" exits with status 1.
C3_ExistingRootRefused ==
    (CalledNamed /\ Exists(before[1], before[2], NamedRoot(config))) =>
        /\ pc = "idle"
        /\ error = "exists"
        /\ exitCode = Some(1)
        /\ ~success
        /\ Untouched

\* The first invocation found a plain file at <cwd>/<name>.
C3_Witness ==
    /\ CalledNamed
    /\ runs = 1
    /\ NamedRoot(config) \in DOMAIN before[2]
    /\ error = "exists"

(***************************************************************************)
(* C4                                                                      *)
(***************************************************************************)
\* C4: after a successful generation into a named subdirectory, a second
\* call with the same configuration fails with the target-conflict error and
\* leaves every file and directory as the first call left it.
C4_SecondCallConflicts ==
    [][(success /\ ~config.use_cwd /\ runs' = runs + 1 /\ config' = config) =>
          /\ called'
          /\ error' = "exists"
          /\ exitCode' = Some(1)
          /\ ~success'
          /\ pc' = "idle"
          /\ files' = files
          /\ dirs' = dirs]_vars

\* The second call has failed and the output of the first is all there.
C4_Witness ==
    /\ runs = 2
    /\ CalledNamed
    /\ error = "exists"
    /\ PlanPaths(Plan(config)) \subseteq Generated
    /\ \A i \in 1..Len(Plan(config)) :
          files[TargetRoot \o Plan(config)[i][1]] = Plan(config)[i][2]

(***************************************************************************)
(* C5                                                                      *)
(***************************************************************************)
\* C5: when generate_project is called in named-subdirectory mode and the
\* target root does not exist, the invocation ends with success and every
\* path of the plan exists under the root, with the rendered content.
C5_FreshRootFullyGenerated ==
    (Ended /\ CalledNamed /\ ~Exists(before[1], before[2], NamedRoot(config))) =>
        /\ success
        /\ exitCode = Some(0)
        /\ error = ""
        /\ \A i \in 1..Len(Plan(config)) :
              /\ Has(Plan(config)[i][1])
              /\ files[TargetRoot \o Plan(config)[i][1]] = Plan(config)[i][2]

\* A generation into a fresh named root, next to an unrelated file, is done.
C5_Witness ==
    /\ Ended
    /\ CalledNamed
    /\ success
    /\ <<"notes.txt">> \in DOMAIN before[2]
    /\ config.db = "postgres"
    /\ Has(<<"pyproject.toml">>)

(***************************************************************************)
(* C6                                                                      *)
(***************************************************************************)
PersistenceDir == PackageDir \o <<"adapters", "outbound", "persistence">>
DatabasePort == <<"application", "ports", "outbound", "database.py">>

\* C6: whatever docker, ci and devcontainer are, after a generation the
\* persistence subtree and the database port file both exist when db is
\* "postgres" and are both absent when db is "none".
C6_PersistenceFollowsDb ==
    success =>
        /\ config.db = "postgres" =>
              /\ HasSrc(DatabasePort)
              /\ PersistenceDir \in dirs
              /\ FilesIn(PersistenceDir) # {}
        /\ config.db = "none" =>
              /\ ~HasSrc(DatabasePort)
              /\ \A p \in dirs \cup DOMAIN files : ~Under(PersistenceDir, p)

\* A generation without a database, with all three toggles on, is done.
C6_Witness ==
    /\ success
    /\ config.db = "none"
    /\ config.docker /\ config.ci /\ config.devcontainer
    /\ HasSrc(<<"adapters", "outbound", "__init__.py">>)

(***************************************************************************)
(* C7                                                                      *)
(***************************************************************************)
PostgresDir == PersistenceDir \o <<"postgres">>
AdapterModules == {"database.py", "models.py", "repositories.py", "config.py"}

\* C7 as stated: with db = "postgres" the directory persistence/postgres/
\* contains exactly four files, the four adapter modules.
C7_ExactlyFourFiles ==
    (success /\ config.db = "postgres") =>
        FilesIn(PostgresDir) = {PostgresDir \o <<m>> : m \in AdapterModules}

\* C7 as amended: with db = "postgres" the directory persistence/postgres/
\* contains exactly five files, the four adapter modules and __init__.py,
\* and no subdirectory.
C7_FourModulesAndInit ==
    (success /\ config.db = "postgres") =>
        /\ FilesIn(PostgresDir) =
              {PostgresDir \o <<m>> : m \in AdapterModules \cup {"__init__.py"}}
        /\ \A p \in dirs : Under(PostgresDir, p) => p = PostgresDir

\* A generation with postgres is done and the adapter directory is there.
C7_Witness ==
    /\ success
    /\ config.db = "postgres"
    /\ PostgresDir \in dirs
    /\ (PostgresDir \o <<"config.py">>) \in DOMAIN files

(***************************************************************************)
(* C8                                                                      *)
(***************************************************************************)
DockerFiles == {<<"docker", "Dockerfile">>, <<"docker", "docker-compose.yml">>,
                <<".dockerignore">>}
CiFiles == {<<".github", "workflows", "ci.yml">>}
DevcontainerFiles == {<<".devcontainer", "devcontainer.json">>,
                      <<".vscode", "launch.json">>,
                      <<".devcontainer", "docker-compose.yml">>}

\* The files a toggle controls.
OwnedBy(flag) ==
    CASE flag = "docker" -> DockerFiles
      [] flag = "ci" -> CiFiles
      [] flag = "devcontainer" -> DevcontainerFiles

Toggles == {"docker", "ci", "devcontainer"}

\* The configuration with one toggle flipped.
Flip(c, flag) == [c EXCEPT ![flag] = ~c[flag]]

\* C8: after a generation, each toggle decides the presence of its own files
\* (the devcontainer compose file also needs db # "none"), every directory is
\* there for a file in it, and the files that do not belong to a toggle are
\* the ones generated for the configuration with that toggle flipped.
C8_TogglesOwnTheirFiles ==
    success =>
        /\ \A p \in DockerFiles : Has(p) <=> config.docker
        /\ \A p \in CiFiles : Has(p) <=> config.ci
        /\ Has(<<".devcontainer", "devcontainer.json">>) <=> config.devcontainer
        /\ Has(<<".vscode", "launch.json">>) <=> config.devcontainer
        /\ Has(<<".devcontainer", "docker-compose.yml">>) <=>
              (config.devcontainer /\ config.db # "none")
        /\ \A d \in dirs : Under(TargetRoot, d) /\ d # TargetRoot =>
              \E p \in DOMAIN files : d \in Parents(p)
        /\ \A flag \in Toggles :
              Generated \ OwnedBy(flag) =
                  PlanPaths(Plan(Flip(config, flag))) \ OwnedBy(flag)

\* A generation with ci on and docker and devcontainer off is done.
C8_Witness ==
    /\ success
    /\ config.ci /\ ~config.docker /\ ~config.devcontainer
    /\ Has(<<".github", "workflows", "ci.yml">>)
    /\ ~Has(<<".dockerignore">>)

(***************************************************************************)
(* C9                                                                      *)
(***************************************************************************)
DevcontainerDir == TargetRoot \o <<".devcontainer">>

\* C9: after a generation, .devcontainer/docker-compose.yml exists if and
\* only if devcontainer is on and db is not "none"; with devcontainer on and
\* db = "none" the directory holds devcontainer.json only; with devcontainer
\* off there is no .devcontainer directory.
C9_DevcontainerCompose ==
    success =>
        /\ Has(<<".devcontainer", "docker-compose.yml">>) <=>
              (config.devcontainer /\ config.db # "none")
        /\ (config.devcontainer /\ config.db = "none") =>
              FilesIn(DevcontainerDir) = {DevcontainerDir \o <<"devcontainer.json">>}
        /\ ~config.devcontainer =>
              \A p \in dirs \cup DOMAIN files : ~Under(DevcontainerDir, p)

\* A generation with devcontainer on and no database is done.
C9_Witness ==
    /\ success
    /\ config.devcontainer
    /\ config.db = "none"
    /\ Has(<<".devcontainer", "devcontainer.json">>)

(***************************************************************************)
(* C10                                                                     *)
(***************************************************************************)
CoreStructure ==
    {<<"__main__.py">>,
     <<"domain", "__init__.py">>,
     <<"domain", "models", "__init__.py">>,
     <<"domain", "services", "__init__.py">>,
     <<"domain", "events", "__init__.py">>,
     <<"domain", "events", "base.py">>,
     <<"domain", "events", "events.py">>,
     <<"domain", "exceptions", "__init__.py">>,
     <<"domain", "exceptions", "base.py">>,
     <<"domain", "exceptions", "validation.py">>,
     <<"domain", "shared", "building_blocks.py">>,
     <<"application", "__init__.py">>,
     <<"application", "ports", "inbound", "__init__.py">>,
     <<"application", "ports", "outbound", "__init__.py">>,
     <<"application", "use_cases", "__init__.py">>,
     <<"application", "dto", "__init__.py">>,
     <<"application", "ports", "outbound", "logger.py">>,
     <<"adapters", "inbound", "api", "rest", "app.py">>,
     <<"adapters", "inbound", "api", "rest", "dependencies.py">>,
     <<"adapters", "inbound", "api", "rest", "routes", "__init__.py">>,
     <<"adapters", "outbound", "__init__.py">>,
     <<"adapters", "outbound", "logging", "logger.py">>,
     <<"adapters", "config", "settings.py">>}

\* C10: after a generation, whatever db and the toggles are, every file of
\* the core source structure exists under src/<name>/.
C10_CoreStructureGenerated ==
    success => \A p \in CoreStructure : HasSrc(p)


(***************************************************************************)
(* C11                                                                     *)
(***************************************************************************)
\* The root metadata files, the documentation file and the test tree.
RootMetadataFiles ==
    {<<"pyproject.toml">>, <<"README.md">>, <<".gitignore">>,
     <<".pre-commit-config.yaml">>, <<".env">>, <<".env.dev">>}
DocsFiles == {<<"docs", "architecture", "hexagonal.puml">>}
TestTreeFiles ==
    {<<"tests", "conftest.py">>,
     <<"tests", "unit", "domain", "__init__.py">>,
     <<"tests", "unit", "application", "__init__.py">>,
     <<"tests", "integration", "adapters", "__init__.py">>}

\* C11: whatever db, docker, ci and devcontainer are, a generation creates
\* the six root metadata files, docs/architecture/hexagonal.puml and the
\* four files of the test tree.
C11_MetadataDocsTestsAlways ==
    success =>
        \A p \in RootMetadataFiles \cup DocsFiles \cup TestTreeFiles : Has(p)

\* A generation with no database and every toggle off has created them.
C11_Witness ==
    /\ success
    /\ config.db = "none"
    /\ ~config.docker /\ ~config.ci /\ ~config.devcontainer
    /\ Has(<<"tests", "integration", "adapters", "__init__.py">>)
    /\ Has(<<".env.dev">>)
    /\ Has(<<"docs", "architecture", "hexagonal.puml">>)

(***************************************************************************)
(* C12                                                                     *)
(***************************************************************************)
\* The last invocation ran with --no-interactive.
NonInteractive == runs > 0 /\ argv.no_interactive

\* C12: with --no-interactive, "new" never calls prompt_for_config, and the
\* configuration that reaches validation and generation holds the default of
\* every field the command line did not give: name "myproject", the default
\* description, author "Author", db "none", python "3.14", and docker, ci and
\* devcontainer true.
C12_NonInteractiveDefaults ==
    NonInteractive =>
        /\ ~prompted
        /\ input = config.name
        /\ IsNone(argv.name) => config.name = DEFAULT_PROJECT_NAME
        /\ IsNone(argv.description) => config.description = DEFAULT_DESCRIPTION
        /\ IsNone(argv.author) => config.author = DEFAULT_AUTHOR
        /\ IsNone(argv.db) => config.db = DEFAULT_DB
        /\ IsNone(argv.python) => config.python = DEFAULT_PYTHON_VERSION
        /\ IsNone(argv.docker) => config.docker = TRUE
        /\ IsNone(argv.ci) => config.ci = TRUE
        /\ IsNone(argv.devcontainer) => config.devcontainer = TRUE

\* "new -y" with nothing else on the command line has generated the default
\* project with every optional part.
C12_Witness ==
    /\ NonInteractive
    /\ IsNone(argv.name) /\ IsNone(argv.db) /\ IsNone(argv.devcontainer)
    /\ success
    /\ config.name = DEFAULT_PROJECT_NAME
    /\ config.python = DEFAULT_PYTHON_VERSION
    /\ Has(<<".devcontainer", "devcontainer.json">>)
    /\ Has(<<"docker", "Dockerfile">>)

(***************************************************************************)
(* C13                                                                     *)
(***************************************************************************)
\* The fields of the configuration the command line can give.
Fields ==
    {"name", "description", "author", "db", "python", "docker", "ci",
     "devcontainer"}

\* Field f was given on the command line as a value of its own (the "."
\* sentinel stands for the name of the current directory).
Supplied(f) ==
    /\ ~IsNone(argv[f])
    /\ ~(f = "name" /\ argv.name = Some(<<".">>))

\* C13: a value the user supplied is never replaced: in both modes every
\* field given on the command line reaches validation and generate_project
\* with the given value, and a toggle given as false stays false.
C13_SuppliedValuesKept ==
    runs > 0 =>
        /\ \A f \in Fields : Supplied(f) => config[f] = Val(argv[f])
        /\ \A t \in {"docker", "ci", "devcontainer"} :
              argv[t] = Some(FALSE) => config[t] = FALSE

(***************************************************************************)
(* C14                                                                     *)
(***************************************************************************)
\* The last invocation called generate_project with _use_cwd set.
CalledCwd == runs > 0 /\ called /\ config.use_cwd

\* The paths, relative to the current directory, of the files the last
\* invocation has written.
Written == DOMAIN files \ DOMAIN before[2]

\* The same configuration in named-subdirectory mode.
Named(c) == [c EXCEPT !.use_cwd = FALSE]

\* C14: after a generation with _use_cwd set, the files written are the
\* relative paths of the named-mode plan of the same configuration, resolved
\* against the current directory itself (src/<name>/__init__.py and
\* pyproject.toml lie directly under it), and nothing named <name> exists
\* under the current directory.
C14_CwdModeWritesPlanAtCwd ==
    (CalledCwd /\ success) =>
        /\ Written = PlanPaths(Plan(Named(config)))
        /\ <<"src", NameStr(config.name), "__init__.py">> \in DOMAIN files
        /\ <<"pyproject.toml">> \in DOMAIN files
        /\ ~Exists(dirs, files, NamedRoot(config))

\* "new ." in an empty directory my-app has generated package my_app with
\* the persistence adapter.
C14_Witness ==
    /\ CalledCwd
    /\ success
    /\ NameStr(config.name) = "my_app"
    /\ config.db = "postgres"
    /\ <<"src", "my_app", "adapters", "outbound", "persistence", "postgres",
         "database.py">> \in DOMAIN files
    /\ <<"my_app">> \notin dirs

(***************************************************************************)
(* C15                                                                     *)
(***************************************************************************)
\* C15: in current-directory mode, if the current directory holds any entry
\* when generate_project is called, it raises the "not empty"
\* FileExistsError before it writes anything: the directory is as it was and
\* "new ." exits with status 1.
C15_NonEmptyCwdRefused ==
    (CalledCwd /\ (before[1] # {} \/ DOMAIN before[2] # {})) =>
        /\ pc = "idle"
        /\ error = "not_empty"
        /\ exitCode = Some(1)
        /\ ~success
        /\ Untouched

\* The first "new ." found only an empty subdirectory in the current
\* directory and refused.
C15_Witness ==
    /\ CalledCwd
    /\ runs = 1
    /\ before[1] # {}
    /\ DOMAIN before[2] = {}
    /\ error = "not_empty"
    /\ exitCode = Some(1)

(***************************************************************************)
(* C16                                                                     *)
(***************************************************************************)
\* The positional name of the command line is the "." sentinel.
DotGiven == argv.name = Some(<<".">>)

\* Name d is name s with every character outside [a-zA-Z0-9_] replaced by
\* one underscore.
Underscored(s, d) ==
    /\ Len(d) = Len(s)
    /\ \A i \in 1..Len(s) :
          d[i] = IF s[i] \in LowerCase \cup UpperCase \cup Digits \cup {"_"}
                 THEN s[i] ELSE "_"

\* C16: when the positional name is ".", config["name"] becomes the name of
\* the current directory with every character outside [a-zA-Z0-9_] replaced
\* by an underscore (my-app gives my_app), _use_cwd is true, and that name is
\* what the validator is given, generate_project being called only if it is
\* accepted; for any other positional name _use_cwd is false and the handling
\* of "." leaves config["name"] as given.
C16_DotMeansCwd ==
    runs > 0 =>
        IF DotGiven
        THEN /\ ~IsNone(resolved)
             /\ Underscored(cwdName, Val(resolved))
             /\ cwdName = MyApp => NameStr(Val(resolved)) = "my_app"
             /\ config.use_cwd
             /\ config.name = Val(resolved)
             /\ input = Val(resolved)
             /\ outcome # "none"
             /\ called => outcome = "ok"
             /\ outcome # "ok" => (~called /\ Untouched)
        ELSE /\ ~config.use_cwd
             /\ resolved = argv.name

\* "new ." in a directory named 1a: the derived name 1a was rejected by the
\* validator and generate_project was not called.
C16_Witness ==
    /\ runs > 0
    /\ DotGiven
    /\ cwdName = <<"1", "a">>
    /\ config.use_cwd
    /\ input = <<"1", "a">>
    /\ outcome = "invalid"
    /\ ~called

\* "new ." in an empty directory named my-app has generated package my_app.
C16_WitnessGenerated ==
    /\ DotGiven
    /\ cwdName = MyApp
    /\ success
    /\ NameStr(config.name) = "my_app"

(***************************************************************************)
(* C17                                                                     *)
(***************************************************************************)
\* The validator rejected the name it was given.
Rejected == outcome \in {"invalid", "keyword"}

\* C17: every rejection by the validator, for the grammar or for a keyword,
\* logs a message with a suggested identifier: the rejected name with every
\* character outside [a-zA-Z0-9_] replaced by an underscore.
C17_EveryRejectionSuggests ==
    Rejected => (~IsNone(hint) /\ Underscored(input, Val(hint)))

(***************************************************************************)
(* C20                                                                     *)
(***************************************************************************)
\* C20: the identifier suggested in the message for a name rejected by the
\* grammar is itself accepted by the validator.
C20_SuggestionIsAccepted ==
    outcome = "invalid" =>
        (~IsNone(hint) /\ ValidateProjectName(Val(hint)) = "ok")

(***************************************************************************)
(* C18                                                                     *)
(***************************************************************************)
\* The last invocation ended because a render or a write raised; k is the
\* index in the plan of the file that failed.
Failed == Ended /\ error \in {"render_failed", "write_failed"}

\* The path and the text of the i-th file of the plan of the last invocation.
PathOf(i) == TargetRoot \o Plan(config)[i][1]
TextOf(i) == Plan(config)[i][2]

\* The files written before the failed one are there, complete, no file
\* after the failed one was written, every file that was there before the
\* invocation is as it was, and "new" has not logged the success message.
NoRollbackNoRetry ==
    /\ \A i \in 1..(k - 1) : PathOf(i) \in Written /\ files[PathOf(i)] = TextOf(i)
    /\ \A i \in (k + 1)..Len(Plan(config)) : PathOf(i) \notin Written
    /\ \A q \in DOMAIN before[2] : q \in DOMAIN files /\ files[q] = before[2][q]
    /\ ~success
    /\ exitCode = Some(1)

\* C18: if rendering or writing the k-th file fails, generate_project
\* propagates the error without rollback or retry: exactly the files written
\* before the k-th remain on disk, no file after it is written, and "new"
\* does not log the success message.
C18_ExactlyEarlierFilesRemain ==
    Failed =>
        /\ NoRollbackNoRetry
        /\ Written = {PathOf(i) : i \in 1..(k - 1)}

\* C18 as the code has it: the files written before the k-th remain on disk,
\* complete; the k-th file is absent, or is there holding nothing or a part
\* of its text; no other file is written; "new" does not log the success
\* message.
C18_EarlierFilesRemainFailedOnePartial ==
    Failed =>
        /\ NoRollbackNoRetry
        /\ Written \subseteq {PathOf(i) : i \in 1..k}
        /\ PathOf(k) \in Written =>
              /\ files[PathOf(k)] \in {EmptyText, PartOf(TextOf(k))}
              /\ files[PathOf(k)] # TextOf(k)

\* write_text raised on README.md after open() had created it: the files
\* before it are there and README.md holds a part of its text.
C18_Witness ==
    /\ Failed
    /\ error = "write_failed"
    /\ Plan(config)[k][1] = <<"README.md">>
    /\ Has(<<"pyproject.toml">>)
    /\ Has(<<"README.md">>)
    /\ files[PathOf(k)] = PartOf(TextOf(k))

(***************************************************************************)
(* C19                                                                     *)
(***************************************************************************)
\* The invocation before the last one ended because a render or a write
\* raised.
PrevFailed == runs >= 2 /\ prev \in {"render_failed", "write_failed"}

\* The named root existed when the last invocation started.
RootWasThere == Exists(before[1], before[2], NamedRoot(config))

\* Every file of the plan of the last invocation is there, complete.
Complete ==
    \A i \in 1..Len(Plan(config)) :
        PathOf(i) \in DOMAIN files /\ files[PathOf(i)] = TextOf(i)

\* C19: a run that failed partway is not reported as successful; the run of
\* the same command after it, into the same named root, fails with the
\* target-conflict error and changes nothing when the failed run left the
\* root behind, and otherwise writes the complete output (unless a render or
\* a write fails again); no run writes into a root that was there when it
\* started.
C19_RerunConflictsOrCompletes ==
    /\ Failed => (~success /\ exitCode = Some(1))
    /\ (pc = "generating" /\ ~config.use_cwd) => ~RootWasThere
    /\ (PrevFailed /\ CalledNamed) =>
          IF RootWasThere
          THEN /\ pc = "idle"
               /\ error = "exists"
               /\ exitCode = Some(1)
               /\ ~success
               /\ Untouched
          ELSE \/ pc = "generating"
               \/ Failed
               \/ success /\ exitCode = Some(0) /\ Complete

\* The first run failed and left a root with partial output; the second run
\* was refused and the partial output is as the first run left it.
C19_Witness ==
    /\ runs = 2
    /\ PrevFailed
    /\ CalledNamed
    /\ error = "exists"
    /\ NamedRoot(config) \in dirs
    /\ Has(<<"README.md">>)
    /\ ~Complete
    /\ Untouched

\* The first run failed before it created the root; the second run wrote the
\* complete output.
C19_WitnessRetryCompletes ==
    /\ runs = 2
    /\ PrevFailed
    /\ CalledNamed
    /\ ~RootWasThere
    /\ success
    /\ Complete

(***************************************************************************)
(* C21                                                                     *)
(***************************************************************************)
\* A positional name other than "." was given on the command line.
NameGiven == ~IsNone(argv.name) /\ ~DotGiven

\* C21: in both modes a positional name other than "." is handed to the
\* validator exactly as given; an empty name given on the command line is
\* rejected with a non-zero exit status and nothing is generated, rather than
\* being replaced by the default name.
C21_GivenNameReachesValidator ==
    (runs > 0 /\ NameGiven) =>
        /\ input = Val(argv.name)
        /\ argv.name = Some(<<>>) =>
              /\ outcome = "invalid"
              /\ pc = "idle"
              /\ exitCode = Some(1)
              /\ ~called
              /\ ~success
              /\ Untouched

(***************************************************************************)
(* C22                                                                     *)
(***************************************************************************)
\* The files of the last generation in or below the package directory
\* src/<name>/.
PackageFiles == {p \in DOMAIN files : Under(PackageDir, p)}

\* The directories from the package directory down to the parent of file p.
PackageDirsAbove(p) ==
    {SubSeq(p, 1, i) : i \in Len(PackageDir)..(Len(p) - 1)}

\* Directory d holds the package marker.
HasInit(d) == (d \o <<"__init__.py">>) \in DOMAIN files

\* C22: after a generation, every directory from src/<name>/ down to the
\* parent of any file generated beneath it holds an __init__.py, the
\* persistence/ and persistence/<db>/ directories included when db is not
\* "none".
C22_EveryPackageDirHasInit ==
    success =>
        /\ PackageFiles # {}
        /\ \A p \in PackageFiles : \A d \in PackageDirsAbove(p) : HasInit(d)
        /\ config.db # "none" =>
              /\ HasInit(PersistenceDir)
              /\ HasInit(PersistenceDir \o <<config.db>>)

\* A generation with db postgres is done: the adapter modules are there and
\* the two persistence directories hold their markers.
C22_Witness ==
    /\ success
    /\ config.db = "postgres"
    /\ HasSrc(<<"adapters", "outbound", "persistence", "postgres", "models.py">>)
    /\ HasInit(PersistenceDir)
    /\ HasInit(PostgresDir)
    /\ HasInit(PackageDir \o <<"domain", "exceptions">>)
====
